---- MODULE Spec2Model ----
(***************************************************************************)
(* Employee recognition service: RecognitionService (create, list,         *)
(* listMine, getById, update, soft delete), its store (the recognitions    *)
(* table of database/schema.sql) and the GraphQL subscription fanout.      *)
(***************************************************************************)
EXTENDS Integers, Sequences, FiniteSets, TLC

(***************************************************************************)
(* Bounds of the model.                                                    *)
(***************************************************************************)
MaxRecognitions == 2
MaxSubscriptions == 1
MaxTokens == 4

(***************************************************************************)
(* Values.                                                                 *)
(***************************************************************************)
Null == "NULL"
NoError == "OK"

\* rows of the users table
Users == {"u1", "u2", "u3"}

\* default value of the limit parameter of the list queries
DefaultLimit == 20

\* the longest message validateMessage accepts
MaxMessageLength == 500

\* extractKeywords keeps the first five surviving words
MaxKeywords == 5

\* extractKeywords keeps a word only if it is longer than this
MinWordLength == 3

(***************************************************************************)
(* Text.  A message is a sequence of tokens; the token "_" is one          *)
(* whitespace character, any other token is a run of non-whitespace        *)
(* characters described by the table Token: its length, its lower-case     *)
(* form and whether it matches /^[a-zA-Z]+$/.                              *)
(***************************************************************************)
Space == "_"

Token ==
    [w \in {"Great", "work", "on", "this", "project!", "spam", "Hateful", "a500", "a501"} |->
        CASE w = "Great"    -> [len |-> 5,   lower |-> "great",    alpha |-> TRUE]
          [] w = "work"     -> [len |-> 4,   lower |-> "work",     alpha |-> TRUE]
          [] w = "on"       -> [len |-> 2,   lower |-> "on",       alpha |-> TRUE]
          [] w = "this"     -> [len |-> 4,   lower |-> "this",     alpha |-> TRUE]
          [] w = "project!" -> [len |-> 8,   lower |-> "project!", alpha |-> FALSE]
          [] w = "spam"     -> [len |-> 4,   lower |-> "spam",     alpha |-> TRUE]
          [] w = "Hateful"  -> [len |-> 7,   lower |-> "hateful",  alpha |-> TRUE]
          [] w = "a500"     -> [len |-> 500, lower |-> "a500",     alpha |-> TRUE]
          [] w = "a501"     -> [len |-> 501, lower |-> "a501",     alpha |-> TRUE]]

\* lower-case words that contain 'spam', 'offensive', 'inappropriate' or 'hate'
BlockedLower == {"spam", "hateful"}

StopWords ==
    {"this", "that", "with", "have", "will", "been", "from", "they", "were",
     "said", "each", "which", "their", "time", "would"}

RECURSIVE Length(_)
\* String.prototype.length
Length(m) ==
    IF m = <<>> THEN 0
    ELSE (IF Head(m) = Space THEN 1 ELSE Token[Head(m)].len) + Length(Tail(m))

RECURSIVE TrimStart(_)
TrimStart(m) ==
    IF m # <<>> /\ Head(m) = Space THEN TrimStart(Tail(m)) ELSE m

RECURSIVE TrimEnd(_)
TrimEnd(m) ==
    IF m # <<>> /\ m[Len(m)] = Space THEN TrimEnd(SubSeq(m, 1, Len(m) - 1)) ELSE m

\* String.prototype.trim
Trim(m) == TrimEnd(TrimStart(m))

\* message.toLowerCase().split(/\s+/), without the empty strings the split
\* yields at a leading or trailing whitespace run (the filter drops them:
\* their length is 0)
Words(m) == SelectSeq(m, LAMBDA t : t # Space)

\* message.toLowerCase().includes(word) for the blocked words
HasBlockedWord(m) == \E i \in 1..Len(m) : m[i] # Space /\ Token[m[i]].lower \in BlockedLower

\* JS truthiness of a string
Truthy(m) == m # <<>>

\* JSON.stringify of an array of strings, and JSON.parse of such a text
JsonStringify(a) == [json |-> a]
JsonParse(t) == t.json


(***************************************************************************)
(* State.                                                                  *)
(***************************************************************************)
VARIABLES
    recognitions,   \* the recognitions table: rows in insertion order, id = position
    schema,         \* the table definition of the connected database
    subs,           \* the live GraphQL subscriptions with their event queues
    last            \* the call that ran last, with its outcome and its publishes

vars == <<recognitions, schema, subs, last>>

\* database/schema.sql as shipped: three visibility labels, no updated_at column
SchemaSql == [visibility |-> {"PUBLIC", "PRIVATE", "ANONYMOUS"}, updated_at |-> FALSE]

\* the table the service and DECISIONS.md presuppose: a fourth label DELETED
\* and the updated_at column that updateRecognition sets
SchemaFourLevel ==
    [visibility |-> {"PUBLIC", "PRIVATE", "ANONYMOUS", "DELETED"}, updated_at |-> TRUE]

\* errors raised by the store
EnumError == "invalid input value for enum visibility"
ColumnError == "column updated_at does not exist"
\* the error of a query the store could not run
StoreError == "Database connection failed"

(***************************************************************************)
(* Inputs of the calls.                                                    *)
(***************************************************************************)
\* the callers of createRecognition; "u3" only reads
Senders == {"u1", "u2"}

Messages == { <<Space, "Great", Space, "work">>, <<"spam">> }

UpdateMessages == { <<"on", Space, "project!">> }

VisibilityInputs == {"PUBLIC", "PRIVATE", "ANONYMOUS", "DELETED"}

\* "ghost" is the id of no user
RecipientInputs == {"u2", "", "ghost"}

Ids == 1..(MaxRecognitions + 1)

CreateInputs ==
    [recipientId : RecipientInputs, message : Messages, visibility : VisibilityInputs]

\* the inputs createRecognition accepts for recipient "u2"
ValidCreateInputs ==
    [recipientId : {"u2"}, message : {<<"Great", Space, "work">>},
     visibility : {"PUBLIC", "PRIVATE", "ANONYMOUS"}]

\* the subscribers: "u2" receives recognitions, "u3" is a third party
Subscribers == {"u2", "u3"}

\* the messages of the createRecognition mutation: empty, blank, padded,
\* of 501 characters, with blocked content
AllMessages ==
    { <<>>, <<Space>>, <<Space, "Great", Space, "work">>, <<"a501">>,
      <<"spam">>, <<"Hateful">> }

MutationInputs ==
    [recipientId : RecipientInputs, message : AllMessages, visibility : VisibilityInputs]

\* the texts extractKeywords is called with: every text of at most MaxTokens
\* tokens in which two words are separated by whitespace, and two texts with
\* more than five words that qualify
ExtractTokens == {Space, "Great", "work", "on", "this", "project!"}

WellFormed(m) == \A i \in 1..(Len(m) - 1) : m[i] = Space \/ m[i + 1] = Space

LongMessages ==
    { <<"Great", Space, "work", Space, "Great", Space, "work", Space, "Great", Space, "work">>,
      <<"this", Space, "Great", Space, "on", Space, "work", Space, "project!", Space,
        "work", Space, "Great", Space, "Great", Space, "work", Space, "Great">> }

ExtractInputs ==
    { m \in UNION { [1..n -> ExtractTokens] : n \in 0..MaxTokens } : WellFormed(m) }
        \cup LongMessages

\* the optional fields of an update: a field that is undefined in the JS
\* object is absent from the record
Optional(field, values) == {<<>>} \cup {field :> x : x \in values}

UpdateInputs ==
    { ("id" :> i) @@ m @@ v :
        i \in Ids,
        m \in Optional("message", UpdateMessages),
        v \in Optional("visibility", VisibilityInputs) }

Has(input, field) == field \in DOMAIN input

\* the inputs of two updates that race: each sets the message, the
\* visibility, both, or nothing
RaceInputs ==
    { m @@ v : m \in Optional("message", { <<"on", Space, "project!">>, <<"work">> }),
               v \in Optional("visibility", {"PUBLIC", "PRIVATE"}) }

\* updates of the message, of the visibility, of both or of nothing
AmendInputs ==
    { ("id" :> i) @@ m @@ v :
        i \in Ids,
        m \in Optional("message", UpdateMessages),
        v \in Optional("visibility", {"PRIVATE"}) }

\* the inputs of an edit by the sender: the message may be the empty string,
\* blank, valid, blocked or of 501 characters, and the caller may supply
\* keywords of his own
EditMessages == { <<>>, <<Space>>, <<"work">>, <<"spam">>, <<"a501">> }

EditInputs ==
    { ("id" :> i) @@ m @@ v @@ k :
        i \in Ids,
        m \in Optional("message", EditMessages),
        v \in Optional("visibility", {"PRIVATE"}),
        k \in Optional("keywords", {JsonStringify(<<"great">>)}) }

\* the filters of getRecognitions
FilterInputs ==
    { l @@ v : l \in Optional("limit", {1}),
               v \in Optional("visibility", {"PRIVATE", "DELETED"}) }

Directions == {"sent", "received"}

Limits == {1, DefaultLimit}

Min(a, b) == IF a < b THEN a ELSE b

(***************************************************************************)
(* RecognitionService: validation and keyword extraction.                  *)
(***************************************************************************)
validateMessage(message) ==
    IF ~Truthy(message) \/ Length(Trim(message)) = 0 THEN "Message is required"
    ELSE IF Length(message) > MaxMessageLength THEN "Message cannot exceed 500 characters"
    ELSE IF HasBlockedWord(message) THEN "Message contains inappropriate content"
    ELSE NoError

validateVisibility(visibility) ==
    IF visibility \in {"PUBLIC", "PRIVATE", "ANONYMOUS"} THEN NoError
    ELSE "Invalid visibility setting. Must be PUBLIC, PRIVATE, or ANONYMOUS"

\* a check of the recipient that lets the sender through
validateRecipientSenderIDPresent(recipientId, senderId) ==
    IF recipientId = "" THEN "Recipient ID is required" ELSE NoError

validateRecipientSenderID(recipientId, senderId) ==
    IF recipientId = "" THEN "Recipient ID is required"
    ELSE IF recipientId = senderId THEN "Cannot recognize yourself"
    ELSE NoError

validateRecognitionInput(input, userId) ==
    IF validateMessage(input.message) # NoError THEN validateMessage(input.message)
    ELSE IF validateVisibility(input.visibility) # NoError THEN validateVisibility(input.visibility)
    ELSE validateRecipientSenderID(input.recipientId, userId)

validateRecipient(recipientId) ==
    IF recipientId \in Users THEN NoError ELSE "Recipient not found"

\* a filter without the test /^[a-zA-Z]+$/
extractKeywordsAnyWord(message) ==
    IF ~Truthy(message) THEN <<>>
    ELSE LET words == [i \in 1..Len(Words(message)) |-> Token[Words(message)[i]]]
             kept  == SelectSeq(words, LAMBDA t : /\ t.len > MinWordLength
                                                  /\ t.lower \notin StopWords)
         IN  [i \in 1..Min(MaxKeywords, Len(kept)) |-> kept[i].lower]

extractKeywords(message) ==
    IF ~Truthy(message) THEN <<>>
    ELSE LET words == [i \in 1..Len(Words(message)) |-> Token[Words(message)[i]]]
             kept  == SelectSeq(words, LAMBDA t : /\ t.len > MinWordLength
                                                  /\ t.lower \notin StopWords
                                                  /\ t.alpha)
         IN  [i \in 1..Min(MaxKeywords, Len(kept)) |-> kept[i].lower]

(***************************************************************************)
(* RecognitionService: response formatting.                                *)
(***************************************************************************)
formatRecognitionResponse(recognition, senderId, recipient) ==
    [id         |-> recognition.id,
     message    |-> recognition.message,
     visibility |-> recognition.visibility,
     keywords   |-> JsonParse(recognition.keywords),
     createdAt  |-> recognition.created_at,
     sender     |-> IF recognition.visibility = "ANONYMOUS" THEN Null ELSE senderId,
     recipient  |-> recipient]

formatRecognitionRow(row) ==
    [id         |-> row.id,
     message    |-> row.message,
     visibility |-> row.visibility,
     keywords   |-> JsonParse(row.keywords),
     createdAt  |-> row.created_at,
     sender     |-> IF row.sender_id # Null THEN row.sender_id ELSE Null,
     recipient  |-> row.recipient_id]

\* the event object built by sendNotifications
recognitionData(recognition, recipient) ==
    [id         |-> recognition.id,
     message    |-> recognition.message,
     visibility |-> recognition.visibility,
     keywords   |-> JsonParse(recognition.keywords),
     createdAt  |-> recognition.created_at,
     recipient  |-> recipient]


(***************************************************************************)
(* The store: the queries the service sends, as PostgreSQL runs them.      *)
(***************************************************************************)
Exists(id) == id \in 1..Len(recognitions)

\* a WHERE clause that restricts only PRIVATE rows to their parties
ReadableUnlessPrivate(row, userId) ==
    \/ row.visibility # "PRIVATE"
    \/ (row.sender_id # Null /\ row.sender_id = userId)
    \/ row.recipient_id = userId

\* r.visibility = 'PUBLIC' OR r.sender_id = $1 OR r.recipient_id = $1
\* (a NULL sender_id equals nothing)
Readable(row, userId) ==
    \/ row.visibility = "PUBLIC"
    \/ (row.sender_id # Null /\ row.sender_id = userId)
    \/ row.recipient_id = userId

RECURSIVE OrderByCreatedAtDesc(_)
\* ORDER BY r.created_at DESC, of a set of rows
OrderByCreatedAtDesc(rows) ==
    IF rows = {} THEN <<>>
    ELSE LET newest == CHOOSE r \in rows : \A q \in rows : q.created_at <= r.created_at
         IN  <<newest>> \o OrderByCreatedAtDesc(rows \ {newest})

\* LIMIT n
Limit(rows, n) == SubSeq(rows, 1, Min(n, Len(rows)))

Rows == {recognitions[i] : i \in 1..Len(recognitions)}

\* the outcome of a call: the error it throws (NoError if none), the value it
\* returns and the events it published
Outcome(op, userId, id, error, value, published) ==
    [op |-> op, userId |-> userId, id |-> id, error |-> error,
     value |-> value, published |-> published]

(***************************************************************************)
(* The message bus: PubSub.publish hands the payload to every open         *)
(* subscription of the channel.                                            *)
(***************************************************************************)
\* a bus that also hands the payload to subscriptions that were cancelled
PublishToAll(ss, event) ==
    [i \in 1..Len(ss) |->
        IF ss[i].channel = event.channel
        THEN [ss[i] EXCEPT !.queue = Append(@, event.payload)]
        ELSE ss[i]]

Publish(ss, event) ==
    [i \in 1..Len(ss) |->
        IF ss[i].open /\ ss[i].channel = event.channel
        THEN [ss[i] EXCEPT !.queue = Append(@, event.payload)]
        ELSE ss[i]]

RECURSIVE PublishAll(_, _)
PublishAll(ss, events) ==
    IF events = <<>> THEN ss ELSE PublishAll(Publish(ss, Head(events)), Tail(events))

\* the events the bus accepted among the publish calls made
Accepted(calls) == SelectSeq(calls, LAMBDA c : ~c.threw)

\* a fanout that puts every new row on the public channel
publishCallsAllPublic(recognition, recipient, publishFails) ==
    LET data == recognitionData(recognition, recipient)
        calls == <<[channel |-> "RECOGNITION_RECEIVED", payload |-> data, threw |-> FALSE],
                   [channel |-> "RECOGNITION_CREATED", payload |-> data, threw |-> FALSE]>>
    IN  IF publishFails = 0 \/ publishFails > Len(calls) THEN calls
        ELSE [i \in 1..publishFails |->
                 IF i = publishFails THEN [calls[i] EXCEPT !.threw = TRUE] ELSE calls[i]]

\* the publish calls the try block of sendNotifications makes for a new row;
\* publishFails is the position of the publish call that throws (0: none),
\* which ends the try block
publishCalls(recognition, recipient, publishFails) ==
    LET data == recognitionData(recognition, recipient)
        calls == <<[channel |-> "RECOGNITION_RECEIVED", payload |-> data, threw |-> FALSE]>> \o
                 (IF recognition.visibility = "PUBLIC"
                  THEN <<[channel |-> "RECOGNITION_CREATED", payload |-> data, threw |-> FALSE]>>
                  ELSE <<>>)
    IN  IF publishFails = 0 \/ publishFails > Len(calls) THEN calls
        ELSE [i \in 1..publishFails |->
                 IF i = publishFails THEN [calls[i] EXCEPT !.threw = TRUE] ELSE calls[i]]

\* a sendNotifications without the try/catch: the error of publish escapes
sendNotificationsUncaught(recognition, recipient, publishFails) ==
    LET calls == publishCalls(recognition, recipient, publishFails)
    IN  [published |-> calls,
         error |-> IF \E i \in 1..Len(calls) : calls[i].threw
                   THEN "publish failed" ELSE NoError]

\* sendNotifications: the publish calls it made and the error it throws;
\* the catch logs the error of a publish and swallows it
sendNotifications(recognition, recipient, publishFails) ==
    [published |-> publishCalls(recognition, recipient, publishFails),
     error |-> NoError]

\* an INSERT that stores the caller as sender whatever the visibility
insertRecognitionWithSender(userId, input, keywords) ==
    [id           |-> Len(recognitions) + 1,
     sender_id    |-> userId,
     recipient_id |-> input.recipientId,
     message      |-> Trim(input.message),
     visibility   |-> input.visibility,
     keywords     |-> JsonStringify(keywords),
     created_at   |-> Len(recognitions) + 1]

\* insertRecognition: the row the INSERT stores and returns
insertRecognition(userId, input, keywords) ==
    [id           |-> Len(recognitions) + 1,
     sender_id    |-> IF input.visibility = "ANONYMOUS" THEN Null ELSE userId,
     recipient_id |-> input.recipientId,
     message      |-> Trim(input.message),
     visibility   |-> input.visibility,
     keywords     |-> JsonStringify(keywords),
     created_at   |-> Len(recognitions) + 1]

(***************************************************************************)
(* RecognitionService: the calls.                                          *)
(***************************************************************************)
createRecognition(userId, input) ==
    LET invalid == validateRecognitionInput(input, userId) IN
    IF invalid # NoError
    THEN /\ last' = Outcome("create", userId, 0, invalid, <<>>, <<>>)
         /\ UNCHANGED <<recognitions, schema, subs>>
    ELSE IF validateRecipient(input.recipientId) # NoError
    THEN /\ last' = Outcome("create", userId, 0, validateRecipient(input.recipientId), <<>>, <<>>)
         /\ UNCHANGED <<recognitions, schema, subs>>
    ELSE \/ \* the SELECT of the recipient or the INSERT is rejected by the store
            /\ last' = Outcome("create", userId, 0, StoreError, <<>>, <<>>)
            /\ UNCHANGED <<recognitions, schema, subs>>
         \/ \E publishFails \in 0..2 :
            LET keywords    == extractKeywords(input.message)
                recognition == insertRecognition(userId, input, keywords)
                sent        == sendNotifications(recognition, input.recipientId, publishFails)
            IN  /\ Len(recognitions) < MaxRecognitions
                /\ recognitions' = Append(recognitions, recognition)
                /\ subs' = PublishAll(subs, Accepted(sent.published))
                /\ last' =
                     IF sent.error # NoError
                     THEN Outcome("create", userId, recognition.id, sent.error, <<>>,
                                  sent.published)
                     ELSE Outcome("create", userId, recognition.id, NoError,
                                  <<formatRecognitionResponse(recognition, userId, input.recipientId)>>,
                                  sent.published)
                /\ UNCHANGED schema


(***************************************************************************)
(* The createRecognition mutation: the request as it arrives, then the     *)
(* resolver, which refuses a request without user and calls the service.   *)
(***************************************************************************)
requestCreateRecognition(user, input) ==
    /\ last' = Outcome("createRecognition", user, 0, NoError, <<input>>, <<>>)
    /\ UNCHANGED <<recognitions, schema, subs>>

resolveCreateRecognition ==
    /\ last.op = "createRecognition"
    /\ IF last.userId = Null
       THEN /\ last' = Outcome("create", Null, 0, "Authentication required", <<>>, <<>>)
            /\ UNCHANGED <<recognitions, schema, subs>>
       ELSE createRecognition(last.userId, last.value[1])

\* the rows getRecognitions selects for a viewer
getRecognitionsRows(userId, filters) ==
    LET limit == IF Has(filters, "limit") THEN filters.limit ELSE DefaultLimit
        hits  == {r \in Rows :
                     /\ Readable(r, userId)
                     /\ (Has(filters, "visibility") => r.visibility = filters.visibility)}
    IN  Limit(OrderByCreatedAtDesc(hits), limit)

getRecognitions(userId, filters) ==
    /\ last' =
         IF Has(filters, "visibility") /\ filters.visibility \notin schema.visibility
         THEN Outcome("list", userId, 0, EnumError, <<>>, <<>>)
         ELSE LET rows == getRecognitionsRows(userId, filters)
              IN  Outcome("list", userId, 0, NoError,
                          [i \in 1..Len(rows) |-> formatRecognitionRow(rows[i])], <<>>)
    /\ UNCHANGED <<recognitions, schema, subs>>

\* the rows getMyRecognitions selects for a viewer
getMyRecognitionsRows(userId, type, limit) ==
    LET hits == {r \in Rows :
                    IF type = "sent"
                    THEN r.sender_id # Null /\ r.sender_id = userId
                    ELSE r.recipient_id = userId}
    IN  Limit(OrderByCreatedAtDesc(hits), limit)

getMyRecognitions(userId, type, limit) ==
    /\ last' = LET rows == getMyRecognitionsRows(userId, type, limit)
               IN  Outcome("listMine", userId, 0, NoError,
                           [i \in 1..Len(rows) |-> formatRecognitionRow(rows[i])], <<>>)
    /\ UNCHANGED <<recognitions, schema, subs>>

\* the rows the query of getRecognitionById selects
getRecognitionByIdRows(id, userId) ==
    {r \in Rows : r.id = id /\ Readable(r, userId)}

\* a getRecognitionById that tells an unreadable row from an absent one
getRecognitionByIdResultDenied(id, userId) ==
    IF getRecognitionByIdRows(id, userId) # {}
    THEN [error |-> NoError,
          value |-> <<formatRecognitionRow(CHOOSE r \in getRecognitionByIdRows(id, userId) : TRUE)>>]
    ELSE IF \E r \in Rows : r.id = id
    THEN [error |-> "Access denied", value |-> <<>>]
    ELSE [error |-> "Recognition not found", value |-> <<>>]

\* what getRecognitionById throws and returns
getRecognitionByIdResult(id, userId) ==
    IF getRecognitionByIdRows(id, userId) = {}
    THEN [error |-> "Recognition not found or access denied", value |-> <<>>]
    ELSE [error |-> NoError,
          value |-> <<formatRecognitionRow(CHOOSE r \in getRecognitionByIdRows(id, userId) : TRUE)>>]

getRecognitionById(id, userId) ==
    /\ last' = LET result == getRecognitionByIdResult(id, userId)
               IN  Outcome("getById", userId, id, result.error, result.value, <<>>)
    /\ UNCHANGED <<recognitions, schema, subs>>

\* an ownership check that lets anyone change a row without sender
notOwnerUnlessAnonymous(recognition, userId) ==
    recognition.sender_id # Null /\ recognition.sender_id # userId

\* recognition.sender_id !== userId, the ownership check of update and delete
notOwner(recognition, userId) == recognition.sender_id # userId

\* an UPDATE that stamps created_at instead of updated_at
updatedRowRestamped(row, input, keywords) ==
    [row EXCEPT
        !.message    = IF Has(input, "message") THEN input.message ELSE @,
        !.visibility = IF Has(input, "visibility") THEN input.visibility ELSE @,
        !.keywords   = IF keywords # <<>> THEN keywords[1] ELSE @,
        !.created_at = 0]

\* the row after UPDATE recognitions SET <the supplied fields>
updatedRow(row, input, keywords) ==
    [row EXCEPT
        !.message    = IF Has(input, "message") THEN input.message ELSE @,
        !.visibility = IF Has(input, "visibility") THEN input.visibility ELSE @,
        !.keywords   = IF keywords # <<>> THEN keywords[1] ELSE @]

updateRecognition(userId, input) ==
    LET fail(error) ==
            /\ last' = Outcome("update", userId, input.id, error, <<>>, <<>>)
            /\ UNCHANGED <<recognitions, schema, subs>>
        \* input.keywords after the message branch: <<>> if undefined
        keywords ==
            IF Has(input, "message") /\ Truthy(input.message)
            THEN <<JsonStringify(extractKeywords(input.message))>>
            ELSE IF Has(input, "keywords") THEN <<input.keywords>> ELSE <<>>
    IN
    IF ~Exists(input.id) THEN fail("Recognition not found")
    ELSE IF notOwner(recognitions[input.id], userId)
    THEN fail("You can only update your own recognitions")
    ELSE IF Has(input, "message") /\ Truthy(input.message) /\ validateMessage(input.message) # NoError
    THEN fail(validateMessage(input.message))
    ELSE IF ~Has(input, "message") /\ ~Has(input, "visibility") /\ keywords = <<>>
    THEN fail("No fields to update")
    ELSE IF ~schema.updated_at THEN fail(ColumnError)
    ELSE IF Has(input, "visibility") /\ input.visibility \notin schema.visibility
    THEN fail(EnumError)
    ELSE /\ recognitions' =
              [recognitions EXCEPT ![input.id] = updatedRow(@, input, keywords)]
         /\ last' = Outcome("update", userId, input.id, NoError,
                            <<formatRecognitionRow(recognitions'[input.id])>>, <<>>)
         /\ UNCHANGED <<schema, subs>>

(***************************************************************************)
(* Two updateRecognition calls in flight.  A call first runs its SELECT    *)
(* and its checks, later its UPDATE; the steps of the two calls interleave *)
(* in any order.  last holds the two calls and the order of their writes.  *)
(***************************************************************************)
startUpdates(userId, id, input1, input2) ==
    LET call(input) == [input |-> ("id" :> id) @@ input, pc |-> "select",
                        error |-> NoError, value |-> <<>>]
    IN  /\ last' = [op |-> "updates", userId |-> userId, id |-> id, error |-> NoError,
                    value |-> <<>>, published |-> <<>>,
                    calls |-> <<call(input1), call(input2)>>, writes |-> <<>>]
        /\ UNCHANGED <<recognitions, schema, subs>>

\* the SELECT, the ownership check, the validation of the message with the
\* keywords put into the input, and the check that a field is supplied
updateRecognitionSelect(c) ==
    /\ last.op = "updates"
    /\ c \in 1..Len(last.calls)
    /\ last.calls[c].pc = "select"
    /\ LET input == last.calls[c].input
           hasMessage == Has(input, "message") /\ Truthy(input.message)
           checked == IF hasMessage
                      THEN ("keywords" :> JsonStringify(extractKeywords(input.message))) @@ input
                      ELSE input
           error ==
               IF ~Exists(input.id) THEN "Recognition not found"
               ELSE IF notOwner(recognitions[input.id], last.userId)
               THEN "You can only update your own recognitions"
               ELSE IF hasMessage /\ validateMessage(input.message) # NoError
               THEN validateMessage(input.message)
               ELSE IF ~Has(checked, "message") /\ ~Has(checked, "visibility")
                       /\ ~Has(checked, "keywords")
               THEN "No fields to update"
               ELSE NoError
       IN  last' = [last EXCEPT
                      !.calls[c] = [input |-> checked,
                                    pc    |-> IF error = NoError THEN "update" ELSE "done",
                                    error |-> error, value |-> <<>>]]
    /\ UNCHANGED <<recognitions, schema, subs>>

\* the UPDATE ... RETURNING * and the formatting of the returned row
updateRecognitionUpdate(c) ==
    /\ last.op = "updates"
    /\ c \in 1..Len(last.calls)
    /\ last.calls[c].pc = "update"
    /\ LET input == last.calls[c].input
           keywords == IF Has(input, "keywords") THEN <<input.keywords>> ELSE <<>>
           error == IF ~schema.updated_at THEN ColumnError
                    ELSE IF Has(input, "visibility") /\ input.visibility \notin schema.visibility
                    THEN EnumError
                    ELSE NoError
       IN  IF error # NoError
           THEN /\ last' = [last EXCEPT !.calls[c].pc = "done", !.calls[c].error = error]
                /\ UNCHANGED recognitions
           ELSE /\ recognitions' =
                     [recognitions EXCEPT ![input.id] = updatedRow(@, input, keywords)]
                /\ last' = [last EXCEPT
                              !.calls[c].pc = "done",
                              !.calls[c].value = <<formatRecognitionRow(recognitions'[input.id])>>,
                              !.writes = Append(@, c)]
    /\ UNCHANGED <<schema, subs>>

deleteRecognition(id, userId) ==
    LET fail(error) ==
            /\ last' = Outcome("softDelete", userId, id, error, <<>>, <<>>)
            /\ UNCHANGED <<recognitions, schema, subs>>
    IN
    IF ~Exists(id) THEN fail("Recognition not found")
    ELSE IF notOwner(recognitions[id], userId)
    THEN fail("You can only delete your own recognitions")
    ELSE IF "DELETED" \notin schema.visibility THEN fail(EnumError)
    ELSE /\ recognitions' = [recognitions EXCEPT ![id].visibility = "DELETED"]
         /\ last' = Outcome("softDelete", userId, id, NoError, <<>>, <<>>)
         /\ UNCHANGED <<schema, subs>>

(***************************************************************************)
(* GraphQL subscriptions.                                                  *)
(***************************************************************************)
Channels == {"RECOGNITION_RECEIVED", "RECOGNITION_CREATED"}

\* subscribe: user is the identity of the connection (null if the client
\* sent none), userId the argument of recognitionReceived
subscribe(user, channel, userId) ==
    /\ Len(subs) < MaxSubscriptions
    /\ subs' = Append(subs, [user |-> user, channel |-> channel, userId |-> userId,
                             open |-> TRUE, queue |-> <<>>, surfaced |-> <<>>])
    /\ last' = Outcome("subscribe", user, 0, NoError, <<>>, <<>>)
    /\ UNCHANGED <<recognitions, schema>>

\* the subscriber cancels: the iterator drops what is queued and gets no more
cancel(s) ==
    /\ s \in 1..Len(subs)
    /\ subs[s].open
    /\ subs' = [subs EXCEPT ![s].open = FALSE, ![s].queue = <<>>]
    /\ last' = Outcome("cancel", subs[s].user, 0, NoError, <<>>, <<>>)
    /\ UNCHANGED <<recognitions, schema>>

\* resolve of recognitionReceived: the payload, or null
resolveRecognitionReceived(payload, userId) ==
    IF payload.recipient = userId THEN <<payload>> ELSE <<>>

\* the next queued event of a subscription goes through resolve; what
\* resolve returns is sent to the client
resolve(s) ==
    /\ s \in 1..Len(subs)
    /\ subs[s].open
    /\ subs[s].queue # <<>>
    /\ LET payload == Head(subs[s].queue)
           out == IF subs[s].channel = "RECOGNITION_RECEIVED"
                  THEN resolveRecognitionReceived(payload, subs[s].userId)
                  ELSE <<payload>>
       IN  /\ subs' = [subs EXCEPT ![s].queue = Tail(@), ![s].surfaced = @ \o out]
           /\ last' = Outcome("resolve", subs[s].user, payload.id, NoError, <<>>, <<>>)
    /\ UNCHANGED <<recognitions, schema>>

\* extractKeywords called on a text; the text is kept beside the result
callExtractKeywords(message) ==
    /\ last' = [op |-> "extractKeywords", userId |-> Null, id |-> 0, error |-> NoError,
                value |-> <<extractKeywords(message)>>, published |-> <<>>,
                message |-> message]
    /\ UNCHANGED <<recognitions, schema, subs>>

(***************************************************************************)
(* The server: the batch processor the interval timer runs.                *)
(***************************************************************************)
\* one run: the count of the recent rows is logged, or the error of the
\* query is; the clock is not part of the state, so the count is any number
\* of rows
batchProcessor ==
    /\ \/ \E count \in 0..Len(recognitions) :
            last' = Outcome("batch", Null, 0, NoError, <<[count |-> count]>>, <<>>)
       \/ last' = Outcome("batch", Null, 0, StoreError, <<>>, <<>>)
    /\ UNCHANGED <<recognitions, schema, subs>>

(***************************************************************************)
(* UserService: the role hierarchy.                                        *)
(***************************************************************************)
Roles == {"EMPLOYEE", "MANAGER", "HR", "ADMIN"}

\* role strings: the four roles, unknown ones, and a key every object inherits
RoleInputs == Roles \cup {"INVALID", "", "manager", "constructor"}

\* a level that is not a number: the value found under an inherited key is a
\* function, and a comparison with it is false
NotANumber == -1

\* roleHierarchy[role] || 0
roleLevel(role) ==
    CASE role = "EMPLOYEE" -> 1
      [] role = "MANAGER" -> 2
      [] role = "HR" -> 3
      [] role = "ADMIN" -> 4
      [] role = "constructor" -> NotANumber
      [] OTHER -> 0

\* a hierarchy that asks for more than the required level
hasRoleAbove(userRole, requiredRole) ==
    /\ roleLevel(userRole) # NotANumber /\ roleLevel(requiredRole) # NotANumber
    /\ roleLevel(userRole) > roleLevel(requiredRole)

hasRole(userRole, requiredRole) ==
    /\ roleLevel(userRole) # NotANumber /\ roleLevel(requiredRole) # NotANumber
    /\ roleLevel(userRole) >= roleLevel(requiredRole)

UserService_canAccessTeamAnalytics(userRole) == hasRole(userRole, "MANAGER")

UserService_canAccessOrganizationAnalytics(userRole) == hasRole(userRole, "HR")

(***************************************************************************)
(* AnalyticsService.                                                       *)
(***************************************************************************)
\* an allow-list that leaves the employee in
canAccessTeamAnalyticsAll(userRole) == userRole \in {"EMPLOYEE", "MANAGER", "HR", "ADMIN"}

canAccessTeamAnalytics(userRole) == userRole \in {"MANAGER", "HR", "ADMIN"}

canAccessOrganizationAnalytics(userRole) == userRole \in {"HR", "ADMIN"}

\* users.team_id
Teams == {"t1", "t2"}
TeamOf == [u \in Users |-> IF u = "u3" THEN "t2" ELSE "t1"]

\* FROM recognitions r JOIN users u ON r.recipient_id = u.id WHERE u.team_id = $1
TeamRows(teamId) ==
    SelectSeq(recognitions, LAMBDA r : r.recipient_id \in Users /\ TeamOf[r.recipient_id] = teamId)

\* COUNT(CASE WHEN visibility = v THEN 1 END)
CountVisibility(rows, v) == Len(SelectSeq(rows, LAMBDA r : r.visibility = v))

\* COUNT(DISTINCT column): NULL is not counted
CountDistinctSenders(rows) ==
    Cardinality({rows[i].sender_id : i \in 1..Len(rows)} \ {Null})
CountDistinctRecipients(rows) ==
    Cardinality({rows[i].recipient_id : i \in 1..Len(rows)} \ {Null})

\* jsonb_array_elements_text(keywords) ... GROUP BY keyword, COUNT(*)
KeywordsOf(rows) ==
    UNION { {JsonParse(rows[i].keywords)[j] : j \in 1..Len(JsonParse(rows[i].keywords))} :
            i \in 1..Len(rows) }
KeywordCount(rows, k) ==
    Cardinality({ <<i, j>> \in (1..Len(rows)) \X (1..MaxKeywords) :
                     /\ j <= Len(JsonParse(rows[i].keywords))
                     /\ JsonParse(rows[i].keywords)[j] = k })

\* ORDER BY count DESC LIMIT n: keywords of equal count come in any order
TopKeywords(rows, limit) ==
    LET ks == KeywordsOf(rows)
        n  == Min(limit, Cardinality(ks))
    IN  { s \in [1..n -> ks] :
            /\ \A i, j \in 1..n : i < j =>
                  /\ s[i] # s[j]
                  /\ KeywordCount(rows, s[i]) >= KeywordCount(rows, s[j])
            /\ \A k \in ks : (\A i \in 1..n : s[i] # k) =>
                  \A i \in 1..n : KeywordCount(rows, s[i]) >= KeywordCount(rows, k) }

TeamKeywordsFallback == <<"great", "excellent", "outstanding", "work", "project">>
OrganizationKeywordsFallback ==
    <<"excellent", "great", "outstanding", "work", "project", "team", "collaboration">>

\* a keyword query whose failure leaves the list empty
getTeamTopKeywordsOrNone(teamId, queryFails) ==
    IF queryFails THEN {<<>>} ELSE TopKeywords(TeamRows(teamId), 5)

\* getTeamTopKeywords(teamId) with the default limit: the lists it may return
getTeamTopKeywords(teamId, queryFails) ==
    IF queryFails THEN {TeamKeywordsFallback} ELSE TopKeywords(TeamRows(teamId), 5)

\* getOrganizationTopKeywords() with the default limit
getOrganizationTopKeywords(queryFails) ==
    IF queryFails THEN {OrganizationKeywordsFallback} ELSE TopKeywords(recognitions, 10)

\* the outcome of an analytics call, with the number of queries it sent
AnalyticsOutcome(op, userRole, teamId, error, value, queries) ==
    [op |-> op, userId |-> Null, id |-> 0, error |-> error, value |-> value,
     published |-> <<>>, role |-> userRole, teamId |-> teamId, queries |-> queries]

getTeamStats(teamId, userRole) ==
    /\ UNCHANGED <<recognitions, schema, subs>>
    /\ IF ~canAccessTeamAnalytics(userRole)
       THEN last' = AnalyticsOutcome("teamStats", userRole, teamId,
                        "Insufficient permissions - Manager role or higher required", <<>>, 0)
       ELSE \/ last' = AnalyticsOutcome("teamStats", userRole, teamId, StoreError, <<>>, 1)
            \/ \E keywordsFail \in BOOLEAN :
               \E topKeywords \in getTeamTopKeywords(teamId, keywordsFail) :
                 LET rows == TeamRows(teamId) IN
                 last' = [keywordsFailed |-> keywordsFail] @@
                         AnalyticsOutcome("teamStats", userRole, teamId, NoError,
                            <<[teamId         |-> teamId,
                               totalCount     |-> Len(rows),
                               publicCount    |-> CountVisibility(rows, "PUBLIC"),
                               privateCount   |-> CountVisibility(rows, "PRIVATE"),
                               anonymousCount |-> CountVisibility(rows, "ANONYMOUS"),
                               topKeywords    |-> topKeywords]>>, 2)

getOrganizationAnalytics(userRole) ==
    /\ UNCHANGED <<recognitions, schema, subs>>
    /\ IF ~canAccessOrganizationAnalytics(userRole)
       THEN last' = AnalyticsOutcome("organizationAnalytics", userRole, Null,
                        "Insufficient permissions - HR role or higher required", <<>>, 0)
       ELSE \/ last' = AnalyticsOutcome("organizationAnalytics", userRole, Null, StoreError, <<>>, 1)
            \/ \E keywordsFail \in BOOLEAN :
               \E topKeywords \in getOrganizationTopKeywords(keywordsFail) :
                 last' = [keywordsFailed |-> keywordsFail] @@
                         AnalyticsOutcome("organizationAnalytics", userRole, Null, NoError,
                            <<[totalRecognitions   |-> Len(recognitions),
                               activeRecognizers   |-> CountDistinctSenders(recognitions),
                               recognizedEmployees |-> CountDistinctRecipients(recognitions),
                               publicRecognitions  |-> CountVisibility(recognitions, "PUBLIC"),
                               topKeywords         |-> topKeywords]>>, 2)

\* DATE(created_at) of the rows: the clock is not part of the state, so the
\* rows fall on days in any way that follows their order of creation
Days == 1..2
DateAssignments(rows) ==
    { d \in [1..Len(rows) -> Days] : \A i, j \in 1..Len(rows) : i < j => d[i] <= d[j] }

\* GROUP BY DATE(created_at) ORDER BY date DESC
TrendRows(rows, date) ==
    LET count(day) == Cardinality({i \in 1..Len(rows) : date[i] = day})
        public(day) == Cardinality({i \in 1..Len(rows) :
                                      date[i] = day /\ rows[i].visibility = "PUBLIC"})
        row(day) == [date |-> day, totalCount |-> count(day), publicCount |-> public(day),
                     trend |-> 0]
    IN  (IF count(2) > 0 THEN <<row(2)>> ELSE <<>>) \o (IF count(1) > 0 THEN <<row(1)>> ELSE <<>>)

\* teamId is Null when the caller gives none
getRecognitionTrends(userRole, teamId) ==
    /\ UNCHANGED <<recognitions, schema, subs>>
    /\ IF ~canAccessTeamAnalytics(userRole)
       THEN last' = AnalyticsOutcome("recognitionTrends", userRole, teamId,
                        "Insufficient permissions", <<>>, 0)
       ELSE LET rows == IF teamId # Null THEN TeamRows(teamId) ELSE recognitions IN
            \/ last' = AnalyticsOutcome("recognitionTrends", userRole, teamId, StoreError, <<>>, 1)
            \/ \E date \in DateAssignments(rows) :
                 last' = AnalyticsOutcome("recognitionTrends", userRole, teamId, NoError,
                            <<TrendRows(rows, date)>>, 1)

\* AVG(jsonb_array_length(keywords)) as the fraction sum / count; 0 when
\* there is no row
AverageKeywords(rows) ==
    LET lengths == [i \in 1..Len(rows) |-> Len(JsonParse(rows[i].keywords))]
        sum[i \in 0..Len(rows)] == IF i = 0 THEN 0 ELSE sum[i - 1] + lengths[i]
    IN  IF Len(rows) = 0 THEN [sum |-> 0, count |-> 1]
        ELSE [sum |-> sum[Len(rows)], count |-> Len(rows)]

\* the method takes no role: callerRole is the role of whoever calls it and
\* is only kept in the outcome
getRecognitionMetrics(teamId, callerRole) ==
    /\ UNCHANGED <<recognitions, schema, subs>>
    /\ LET rows == IF teamId # Null THEN TeamRows(teamId) ELSE recognitions IN
       \/ last' = AnalyticsOutcome("recognitionMetrics", callerRole, teamId, StoreError, <<>>, 1)
       \/ last' = AnalyticsOutcome("recognitionMetrics", callerRole, teamId, NoError,
                     <<[totalRecognitions |-> Len(rows),
                        uniqueSenders     |-> CountDistinctSenders(rows),
                        uniqueRecipients  |-> CountDistinctRecipients(rows),
                        averageKeywords   |-> AverageKeywords(rows)]>>, 1)

\* the role checks of the two services, called with any role string
checkHasRole(userRole, requiredRole) ==
    /\ last' = [op |-> "hasRole", userId |-> Null, id |-> 0, error |-> NoError,
                value |-> <<hasRole(userRole, requiredRole)>>, published |-> <<>>,
                role |-> userRole, requiredRole |-> requiredRole]
    /\ UNCHANGED <<recognitions, schema, subs>>

checkAccess(userRole) ==
    /\ last' = [op |-> "canAccess", userId |-> Null, id |-> 0, error |-> NoError,
                value |-> <<[userTeam |-> UserService_canAccessTeamAnalytics(userRole),
                             userOrganization |-> UserService_canAccessOrganizationAnalytics(userRole),
                             analyticsTeam |-> canAccessTeamAnalytics(userRole),
                             analyticsOrganization |-> canAccessOrganizationAnalytics(userRole)]>>,
                published |-> <<>>, role |-> userRole]
    /\ UNCHANGED <<recognitions, schema, subs>>

(***************************************************************************)
(* Specifications.                                                         *)
(***************************************************************************)
Init ==
    /\ recognitions = <<>>
    /\ schema \in {SchemaSql, SchemaFourLevel}
    /\ subs = <<>>
    /\ last = Outcome("init", Null, 0, NoError, <<>>, <<>>)

Create == \E u \in Senders, input \in CreateInputs : createRecognition(u, input)
List == \E u \in Users, filters \in FilterInputs : getRecognitions(u, filters)
ListMine == \E u \in Users, t \in Directions, l \in Limits : getMyRecognitions(u, t, l)
GetById == \E u \in Users, id \in Ids : getRecognitionById(id, u)
Update == \E u \in Users, input \in UpdateInputs : updateRecognition(u, input)
SoftDelete == \E u \in Users, id \in Ids : deleteRecognition(id, u)
CreateValid == \E u \in Senders, input \in ValidCreateInputs : createRecognition(u, input)
Subscribe == \E u \in Subscribers, c \in Channels, a \in Subscribers : subscribe(u, c, a)
Cancel == \E s \in 1..MaxSubscriptions : cancel(s)
Resolve == \E s \in 1..MaxSubscriptions : resolve(s)

\* the service calls on the store
Next == Create \/ List \/ ListMine \/ GetById \/ Update \/ SoftDelete

Spec == Init /\ [][Next]_vars

RequestCreate ==
    \E u \in Senders \cup {Null}, input \in MutationInputs : requestCreateRecognition(u, input)
ResolveCreate == resolveCreateRecognition

\* the createRecognition mutation alone, on every kind of input
NextCreate == RequestCreate \/ ResolveCreate

SpecCreate == Init /\ [][NextCreate]_vars

\* recognitions of recipients of both teams
TeamCreateInputs ==
    [recipientId : {"u2", "u3"}, message : { <<"Great", Space, "work">> },
     visibility : {"PUBLIC", "PRIVATE", "ANONYMOUS"}]

CreateForTeam == \E input \in TeamCreateInputs : createRecognition("u1", input)
TeamStats == \E t \in Teams, r \in Roles \cup {"INVALID"} : getTeamStats(t, r)
OrganizationAnalytics == \E r \in Roles \cup {"INVALID"} : getOrganizationAnalytics(r)

\* the analytics over a table that grows and whose rows are soft-deleted
NextAnalytics == CreateForTeam \/ SoftDelete \/ TeamStats \/ OrganizationAnalytics

SpecAnalytics == Init /\ [][NextAnalytics]_vars

BatchProcessor == batchProcessor

\* creation, subscriptions and the batch processor; the timer keeps firing
\* and queued events keep being resolved
NextBatch == CreateValid \/ Subscribe \/ Cancel \/ Resolve \/ BatchProcessor

SpecBatch == Init /\ [][NextBatch]_vars /\ WF_vars(BatchProcessor) /\ WF_vars(Resolve)

ExtractKeywords == \E m \in ExtractInputs : callExtractKeywords(m)

\* keyword extraction alone
NextExtract == ExtractKeywords

SpecExtract == Init /\ [][NextExtract]_vars

Trends == \E r \in Roles \cup {"INVALID"}, t \in Teams \cup {Null} : getRecognitionTrends(r, t)
Metrics == \E r \in Roles \cup {"INVALID"}, t \in Teams \cup {Null} : getRecognitionMetrics(t, r)

\* the trends and the metrics over a table that grows
NextTrends == CreateForTeam \/ Trends \/ Metrics

SpecTrends == Init /\ [][NextTrends]_vars

\* u1 recognizes u2, in public or in private
CreateForRecipient ==
    \E v \in {"PUBLIC", "PRIVATE"} :
        createRecognition("u1", [recipientId |-> "u2", message |-> <<"Great", Space, "work">>,
                                 visibility |-> v])
\* a user subscribes for himself
SubscribeSelf == \E u \in Subscribers, c \in Channels : subscribe(u, c, u)

\* publication and delivery, with subscribers that come and go
NextDelivery == CreateForRecipient \/ SubscribeSelf \/ Cancel \/ Resolve

SpecDelivery == Init /\ [][NextDelivery]_vars

\* u1 recognizes u2 with a message of two words, of 500 characters, or of 500
\* characters after a blank
CreateForEdit ==
    \E m \in { <<"Great", Space, "work">>, <<"a500">>, <<Space, "a500">> } :
        createRecognition("u1", [recipientId |-> "u2", message |-> m, visibility |-> "PUBLIC"])
Edit == \E input \in EditInputs : updateRecognition("u1", input)

\* creation and the edits of the sender
NextEdit == CreateForEdit \/ Edit

SpecEdit == Init /\ [][NextEdit]_vars

Amend == \E u \in Senders, input \in AmendInputs : updateRecognition(u, input)

\* the recipient and a third party read the table
ReadRows ==
    \E u \in {"u2", "u3"} :
        \/ getRecognitions(u, <<>>)
        \/ getMyRecognitions(u, "received", DefaultLimit)
        \/ \E id \in Ids : getRecognitionById(id, u)
\* HR reads every analytics
ReadAnalytics ==
    \/ \E t \in Teams : getTeamStats(t, "HR")
    \/ getOrganizationAnalytics("HR")
    \/ getRecognitionTrends("HR", Null)
    \/ getRecognitionMetrics(Null, "HR")

\* every operation that writes a row or reads the table
NextFrame == CreateForRecipient \/ Amend \/ SoftDelete \/ ReadRows \/ ReadAnalytics

SpecFrame == Init /\ [][NextFrame]_vars

\* u1 recognizes u2 under his name or anonymously
CreateNamedOrAnonymous ==
    \E v \in {"PUBLIC", "ANONYMOUS"} :
        createRecognition("u1", [recipientId |-> "u2", message |-> <<"Great", Space, "work">>,
                                 visibility |-> v])

\* the two mutations of existing recognitions, by every user
NextMutate == CreateNamedOrAnonymous \/ Amend \/ SoftDelete

SpecMutate == Init /\ [][NextMutate]_vars

StartUpdates ==
    \E id \in 1..Len(recognitions), input1 \in RaceInputs, input2 \in RaceInputs :
        startUpdates("u1", id, input1, input2)
SelectStep == \E c \in 1..2 : updateRecognitionSelect(c)
UpdateStep == \E c \in 1..2 : updateRecognitionUpdate(c)

\* two updates of the sender on one recognition, step by step
NextRace == CreateForRecipient \/ StartUpdates \/ SelectStep \/ UpdateStep

SpecRace == Init /\ [][NextRace]_vars

HasRole == \E r, q \in RoleInputs : checkHasRole(r, q)
CanAccess == \E r \in RoleInputs : checkAccess(r)

\* the role checks alone
NextRoles == HasRole \/ CanAccess

SpecRoles == Init /\ [][NextRoles]_vars

\* creation and the subscription fanout
NextFanout == CreateValid \/ Subscribe \/ Cancel \/ Resolve

SpecFanout == Init /\ [][NextFanout]_vars


(***************************************************************************)
(* Properties.                                                             *)
(***************************************************************************)
\* the readability predicate of the access rules
IsReadableBy(row, viewer) ==
    \/ row.visibility = "PUBLIC"
    \/ row.recipient_id = viewer
    \/ (row.sender_id # Null /\ row.sender_id = viewer)

ThirdParty(row, viewer) == viewer # row.recipient_id /\ viewer # row.sender_id

NotFoundOrDenied == "Recognition not found or access denied"

\* C1: every recognition that list or getById returns to a viewer is PUBLIC,
\* or addressed to the viewer, or sent by the viewer (sender not null).
C1_ReadsAreReadable ==
    last.op \in {"list", "getById"} =>
        \A i \in 1..Len(last.value) :
            /\ Exists(last.value[i].id)
            /\ IsReadableBy(recognitions[last.value[i].id], last.userId)

\* list returned something to a viewer from whom the store hides a row
C1_Witness ==
    /\ last.op = "list"
    /\ Len(last.value) > 0
    /\ \E r \in Rows : ~IsReadableBy(r, last.userId)

\* C2: a getById that follows a successful softDelete of the same
\* recognition fails with not-found, whoever the viewer is.
C2_GetByIdAfterSoftDeleteFails ==
    [][ ( /\ last.op = "softDelete" /\ last.error = NoError
          /\ last'.op = "getById" /\ last'.id = last.id )
        => last'.error = NotFoundOrDenied ]_vars

\* C3: list and listMine return no recognition whose visibility is DELETED.
C3_ListsExcludeDeleted ==
    last.op \in {"list", "listMine"} =>
        \A i \in 1..Len(last.value) : last.value[i].visibility # "DELETED"

\* C4: a recognition whose visibility is DELETED stays DELETED in every step.
C4_DeletedIsTerminal ==
    [][ \A i \in 1..Len(recognitions) :
            recognitions[i].visibility = "DELETED" => recognitions'[i].visibility = "DELETED" ]_vars

\* C5: a step that leaves a recognition DELETED that was not DELETED before
\* (or did not exist) is a softDelete.
C5_DeletedOnlyBySoftDelete ==
    [][ \A i \in 1..Len(recognitions') :
            ( /\ recognitions'[i].visibility = "DELETED"
              /\ (i > Len(recognitions) \/ recognitions[i].visibility # "DELETED") )
            => last'.op = "softDelete" ]_vars

\* C6: a successful create with visibility ANONYMOUS stores sender_id NULL,
\* returns a record whose sender is null, and publishes no payload that
\* carries a sender.
C6_AnonymousCreateHidesSender ==
    ( /\ last.op = "create" /\ last.error = NoError
      /\ last.value[1].visibility = "ANONYMOUS" )
    => /\ recognitions[last.id].sender_id = Null
       /\ last.value[1].sender = Null
       /\ \A i \in 1..Len(last.published) :
              \/ "sender" \notin DOMAIN last.published[i].payload
              \/ last.published[i].payload.sender = Null

\* an ANONYMOUS recognition was created and its event published
C6_Witness ==
    /\ last.op = "create" /\ last.error = NoError
    /\ last.value[1].visibility = "ANONYMOUS"
    /\ Len(last.published) = 1
    /\ last.published[1].payload.id = last.id

\* C7: what a subscription of the recipient channel surfaces is addressed to
\* the authenticated identity of the subscriber, and no subscription surfaces
\* a PRIVATE or ANONYMOUS recognition addressed to another user.
C7_SurfacedOnlyToRecipient ==
    \A s \in 1..Len(subs) : \A i \in 1..Len(subs[s].surfaced) :
        ( \/ subs[s].channel = "RECOGNITION_RECEIVED"
          \/ subs[s].surfaced[i].visibility \in {"PRIVATE", "ANONYMOUS"} )
        => subs[s].surfaced[i].recipient = subs[s].user

\* C8: getById by a third party on a PRIVATE recognition throws the
\* not-found error and is the outcome of getById on an id that is absent.
C8_PrivateLooksAbsent ==
    ( /\ last.op = "getById" /\ Exists(last.id)
      /\ recognitions[last.id].visibility = "PRIVATE"
      /\ ThirdParty(recognitions[last.id], last.userId) )
    => /\ last.error = NotFoundOrDenied
       /\ last.error = getRecognitionByIdResult(MaxRecognitions + 1, last.userId).error
       /\ last.value = getRecognitionByIdResult(MaxRecognitions + 1, last.userId).value

\* a third party asked for an existing PRIVATE recognition
C8_Witness ==
    /\ last.op = "getById" /\ Exists(last.id)
    /\ recognitions[last.id].visibility = "PRIVATE"
    /\ ThirdParty(recognitions[last.id], last.userId)
    /\ last.error # NoError

\* C9: an update or softDelete of an existing recognition by a viewer who is
\* not its sender_id (always so when sender_id is NULL) throws the ownership
\* error and leaves the table as it was; hence one that succeeds is by the
\* sender.
C9_OnlySenderMutates ==
    [][ ( /\ last'.op \in {"update", "softDelete"}
          /\ Exists(last'.id)
          /\ recognitions[last'.id].sender_id # last'.userId )
        => /\ last'.error = IF last'.op = "update"
                            THEN "You can only update your own recognitions"
                            ELSE "You can only delete your own recognitions"
           /\ recognitions' = recognitions ]_vars

\* the creator of an ANONYMOUS recognition was refused its update
C9_Witness ==
    /\ last.op = "update" /\ Exists(last.id)
    /\ recognitions[last.id].sender_id = Null
    /\ last.userId = "u1"
    /\ last.error = "You can only update your own recognitions"

\* C10: softDelete of an existing recognition by its sender succeeds and
\* leaves its visibility DELETED.
C10_SoftDeleteBySenderSucceeds ==
    ( /\ last.op = "softDelete" /\ Exists(last.id)
      /\ recognitions[last.id].sender_id = last.userId )
    => /\ last.error = NoError
       /\ recognitions[last.id].visibility = "DELETED"


\* a message the validation accepts: not blank, at most 500 characters, no
\* blocked content
MessageAccepted(m) ==
    /\ \E i \in 1..Len(m) : m[i] # Space
    /\ Length(m) <= 500
    /\ \A i \in 1..Len(m) : m[i] \notin {"spam", "Hateful"}

\* the step is the resolver running a request of a user for himself
SelfRecognitionStep ==
    /\ last.op = "createRecognition" /\ last.userId # Null
    /\ last.value[1].recipientId = last.userId
    /\ last'.op = "create"

\* C12 (as claimed): a create whose recipientId is the sender fails with the
\* self-recognition error, whatever the message.
C12_SelfRecognitionIsConflict ==
    [][ SelfRecognitionStep => last'.error = "Cannot recognize yourself" ]_vars

\* C12 (amended): a create whose recipientId is the sender always fails and
\* stores nothing; it fails with the self-recognition error exactly when the
\* message and the visibility are valid, else with the error of the message
\* or of the visibility, which are checked first.
C12_SelfRecognitionFails ==
    [][ SelfRecognitionStep =>
          /\ last'.error # NoError
          /\ recognitions' = recognitions
          /\ (last'.error = "Cannot recognize yourself") <=>
                ( /\ MessageAccepted(last.value[1].message)
                  /\ last.value[1].visibility \in {"PUBLIC", "PRIVATE", "ANONYMOUS"} )
          /\ ~MessageAccepted(last.value[1].message) =>
                last'.error \in {"Message is required",
                                 "Message cannot exceed 500 characters",
                                 "Message contains inappropriate content"} ]_vars

\* a self-recognition was refused as such
C12_Witness ==
    /\ last.op = "create" /\ last.userId = "u2"
    /\ last.error = "Cannot recognize yourself"

\* C13: a create during which a publish call threw returns the created
\* record without error, and the record is in the table.
C13_PublishFailureIsSwallowed ==
    ( /\ last.op = "create"
      /\ \E i \in 1..Len(last.published) : last.published[i].threw )
    => /\ last.error = NoError
       /\ Len(last.value) = 1
       /\ Exists(last.id)
       /\ last.value[1].id = last.id
       /\ recognitions[last.id].message = last.value[1].message

\* the publish on the public channel threw after the one on the recipient
\* channel went through
C13_Witness ==
    /\ last.op = "create" /\ last.error = NoError
    /\ Len(last.published) = 2
    /\ ~last.published[1].threw /\ last.published[2].threw
    /\ Exists(last.id)

\* the channels a sequence of publish calls went to
ChannelsOf(calls) == [i \in 1..Len(calls) |-> calls[i].channel]

ExpectedChannels(visibility) ==
    IF visibility = "PUBLIC" THEN <<"RECOGNITION_RECEIVED", "RECOGNITION_CREATED">>
    ELSE <<"RECOGNITION_RECEIVED">>

C20_FailedCreateLeavesNoTrace ==
    [][ last'.op = "create" =>
          /\ last'.error # NoError =>
                /\ recognitions' = recognitions
                /\ subs' = subs
                /\ last'.published = <<>>
          /\ \A i \in 1..Len(last'.published) :
                /\ last'.published[i].payload.id \in 1..Len(recognitions')
                /\ recognitions'[last'.published[i].payload.id].message
                      = last'.published[i].payload.message ]_vars

\* the insert of a valid request was rejected by the store
C20_Witness ==
    /\ last.op = "create" /\ last.error = StoreError
    /\ last.published = <<>>

\* the rows that are not soft-deleted
Live(rows) == SelectSeq(rows, LAMBDA r : r.visibility # "DELETED")

\* C11: the counts teamStats and organizationAnalytics return are those of
\* the recognitions that are not DELETED.
C11_AnalyticsExcludeDeleted ==
    /\ (last.op = "teamStats" /\ last.error = NoError) =>
          LET live == Live(TeamRows(last.teamId)) IN
          /\ last.value[1].totalCount = Len(live)
          /\ last.value[1].publicCount = CountVisibility(live, "PUBLIC")
          /\ last.value[1].privateCount = CountVisibility(live, "PRIVATE")
          /\ last.value[1].anonymousCount = CountVisibility(live, "ANONYMOUS")
    /\ (last.op = "organizationAnalytics" /\ last.error = NoError) =>
          LET live == Live(recognitions) IN
          /\ last.value[1].totalRecognitions = Len(live)
          /\ last.value[1].activeRecognizers = CountDistinctSenders(live)
          /\ last.value[1].recognizedEmployees = CountDistinctRecipients(live)
          /\ last.value[1].publicRecognitions = CountVisibility(live, "PUBLIC")

\* the rank of a role string: 1 to 4 for the four roles, 0 for any other
Rank(r) ==
    CASE r = "EMPLOYEE" -> 1 [] r = "MANAGER" -> 2 [] r = "HR" -> 3 [] r = "ADMIN" -> 4
      [] OTHER -> 0

\* C15: for every role string both services grant team analytics exactly
\* from MANAGER up and organization analytics exactly from HR up, so the
\* hierarchy of UserService and the allow-lists of AnalyticsService agree.
C15_RoleChecksAgree ==
    last.op = "canAccess" =>
        /\ last.value[1].userTeam = (Rank(last.role) >= Rank("MANAGER"))
        /\ last.value[1].analyticsTeam = (Rank(last.role) >= Rank("MANAGER"))
        /\ last.value[1].userOrganization = (Rank(last.role) >= Rank("HR"))
        /\ last.value[1].analyticsOrganization = (Rank(last.role) >= Rank("HR"))

\* the checks ran on MANAGER, which has the team level and not the organization one
C15_Witness ==
    /\ last.op = "canAccess" /\ last.role = "MANAGER"
    /\ last.value[1].userTeam /\ last.value[1].analyticsTeam
    /\ ~last.value[1].userOrganization /\ ~last.value[1].analyticsOrganization

\* C16: teamStats fails with the permission error for every role below
\* MANAGER and organizationAnalytics for every role below HR, and neither
\* has then sent a query.
C16_DeniedBeforeAnyRead ==
    /\ (last.op = "teamStats" /\ Rank(last.role) < Rank("MANAGER")) =>
          /\ last.error = "Insufficient permissions - Manager role or higher required"
          /\ last.value = <<>> /\ last.queries = 0
    /\ (last.op = "organizationAnalytics" /\ Rank(last.role) < Rank("HR")) =>
          /\ last.error = "Insufficient permissions - HR role or higher required"
          /\ last.value = <<>> /\ last.queries = 0

\* a manager was refused the organization analytics of a table with rows
C16_Witness ==
    /\ last.op = "organizationAnalytics" /\ last.role = "MANAGER"
    /\ last.error = "Insufficient permissions - HR role or higher required"
    /\ last.queries = 0 /\ Len(recognitions) > 0

\* C17: hasRole is false when the user's role or the required role is not
\* one of the four roles.
C17_HasRoleRejectsUnknownRoles ==
    ( /\ last.op = "hasRole"
      /\ (last.role \notin Roles \/ last.requiredRole \notin Roles) )
    => last.value[1] = FALSE

\* the recipient channel has no open subscription for the user
NoLiveSubscription(u) ==
    ~\E s \in 1..Len(subs) :
        subs[s].open /\ subs[s].channel = "RECOGNITION_RECEIVED" /\ subs[s].userId = u

\* a subscription of the recipient channel surfaced the recognition
Delivered(id) ==
    \E s \in 1..Len(subs) :
        /\ subs[s].channel = "RECOGNITION_RECEIVED"
        /\ \E i \in 1..Len(subs[s].surfaced) : subs[s].surfaced[i].id = id

\* C18: a recognition created while its recipient has no live subscription
\* is eventually delivered to the recipient, the batch processor running.
C18_BatchDeliversMissed ==
    \A id \in 1..MaxRecognitions :
        ( /\ last.op = "create" /\ last.error = NoError /\ last.id = id
          /\ Exists(id)
          /\ NoLiveSubscription(recognitions[id].recipient_id) )
        ~> Delivered(id)

\* C19: an update of a DELETED recognition changes none of its message,
\* visibility and keywords, whoever calls it.
C19_UpdateLeavesDeletedAlone ==
    [][ \A id \in 1..Len(recognitions) :
          (recognitions[id].visibility = "DELETED" /\ last'.op = "update") =>
              /\ recognitions'[id].message = recognitions[id].message
              /\ recognitions'[id].visibility = recognitions[id].visibility
              /\ recognitions'[id].keywords = recognitions[id].keywords ]_vars

RECURSIVE Survivors(_)
\* the words of a text, left to right, that are longer than 3 characters,
\* purely alphabetic and no stop word, in lower case
Survivors(m) ==
    IF m = <<>> THEN <<>>
    ELSE LET t == Head(m)
             keep == /\ t # Space
                     /\ Token[t].len > 3
                     /\ Token[t].alpha
                     /\ Token[t].lower \notin StopWords
         IN  (IF keep THEN <<Token[t].lower>> ELSE <<>>) \o Survivors(Tail(m))

C26_KeywordFailureFallsBack ==
    /\ (last.op = "teamStats" /\ last.error = NoError /\ last.keywordsFailed) =>
          /\ Len(last.value) = 1
          /\ last.value[1].totalCount = Len(TeamRows(last.teamId))
          /\ last.value[1].publicCount = CountVisibility(TeamRows(last.teamId), "PUBLIC")
          /\ last.value[1].topKeywords =
                <<"great", "excellent", "outstanding", "work", "project">>
          /\ Len(last.value[1].topKeywords) <= 5
    /\ (last.op = "organizationAnalytics" /\ last.error = NoError /\ last.keywordsFailed) =>
          /\ Len(last.value) = 1
          /\ last.value[1].totalRecognitions = Len(recognitions)
          /\ last.value[1].publicRecognitions = CountVisibility(recognitions, "PUBLIC")
          /\ last.value[1].topKeywords =
                <<"excellent", "great", "outstanding", "work", "project", "team",
                  "collaboration">>
          /\ Len(last.value[1].topKeywords) <= 10
    /\ (last.op \in {"teamStats", "organizationAnalytics"} /\ last.error # NoError) =>
          last.queries < 2

\* the keyword query of teamStats failed on a team that has a recognition
C26_Witness ==
    /\ last.op = "teamStats" /\ last.error = NoError /\ last.keywordsFailed
    /\ last.value[1].totalCount > 0
    /\ last.value[1].topKeywords[2] = "excellent"

\* C29: getRecognitionTrends and getRecognitionMetrics called without a team
\* fail for a caller whose role is below HR.
C29_OrganizationWideNeedsHR ==
    ( /\ last.op \in {"recognitionTrends", "recognitionMetrics"}
      /\ last.teamId = Null
      /\ Rank(last.role) < Rank("HR") )
    => (last.error # NoError /\ last.value = <<>>)

\* C27: a recognition whose visibility is ANONYMOUS is returned with sender
\* null by the lists, by getById and by update.
C27_AnonymousSenderIsNull ==
    ( /\ last.op \in {"list", "listMine", "getById", "update"}
      /\ last.error = NoError )
    => \A i \in 1..Len(last.value) :
           last.value[i].visibility = "ANONYMOUS" => last.value[i].sender = Null

\* C28: for a viewer who is neither sender nor recipient, update and
\* softDelete of an existing PRIVATE or ANONYMOUS recognition have the outcome
\* they have on an id that does not exist.
C28_MutationsHideExistence ==
    ( /\ last.op \in {"update", "softDelete"}
      /\ Exists(last.id)
      /\ recognitions[last.id].visibility \in {"PRIVATE", "ANONYMOUS"}
      /\ ThirdParty(recognitions[last.id], last.userId) )
    => (last.error = "Recognition not found" /\ last.value = <<>>)

\* the ids of the events a subscription holds: those it surfaced and those
\* still queued for it
Held(sub) ==
    {sub.surfaced[i].id : i \in 1..Len(sub.surfaced)} \cup {sub.queue[i].id : i \in 1..Len(sub.queue)}

C21_StoredMessagesAreValid ==
    \A i \in 1..Len(recognitions) :
        /\ Length(Trim(recognitions[i].message)) >= 1
        /\ Length(Trim(recognitions[i].message)) <= 500
        /\ ~HasBlockedWord(recognitions[i].message)

\* C22: the keywords of every stored recognition are those extracted from
\* its current message.
C22_KeywordsFollowMessage ==
    \A i \in 1..Len(recognitions) :
        JsonParse(recognitions[i].keywords) = extractKeywords(recognitions[i].message)

\* C30: update and softDelete leave the id, sender, recipient and creation
\* time of every recognition as they were and touch no recognition but their
\* target; the lists, getById and the analytics leave the table as it was.
C30_FrameConditions ==
    [][ /\ last'.op \in {"update", "softDelete"} =>
              /\ Len(recognitions') = Len(recognitions)
              /\ \A i \in 1..Len(recognitions) :
                    /\ recognitions'[i].id = recognitions[i].id
                    /\ recognitions'[i].sender_id = recognitions[i].sender_id
                    /\ recognitions'[i].recipient_id = recognitions[i].recipient_id
                    /\ recognitions'[i].created_at = recognitions[i].created_at
                    /\ i # last'.id => recognitions'[i] = recognitions[i]
        /\ last'.op \in {"list", "listMine", "getById", "teamStats", "organizationAnalytics",
                         "recognitionTrends", "recognitionMetrics"} =>
              recognitions' = recognitions ]_vars

\* an update of the second of two recognitions went through and the first
\* still has the message it was created with
C30_Witness ==
    /\ last.op = "update" /\ last.error = NoError /\ last.id = 2
    /\ Len(recognitions) = 2
    /\ recognitions[2].message = <<"on", Space, "project!">>
    /\ recognitions[1].message = <<"Great", Space, "work">>

\* the field of the target has the value given by the last of the calls
\* that wrote it, in the order of their writes
LastWriteWins(field) ==
    LET Writers == SelectSeq(last.writes, LAMBDA c : Has(last.calls[c].input, field))
    IN  Writers # <<>> =>
            recognitions[last.id][field] = last.calls[Writers[Len(Writers)]].input[field]

\* C23: two concurrent updates of a recognition by its sender, each
\* supplying a field, both return without error, and every field has the
\* value written by the update that wrote it last.
C23_ConcurrentUpdatesLastWriteWins ==
    ( /\ last.op = "updates"
      /\ \A c \in 1..2 : last.calls[c].pc = "done"
      /\ \A c \in 1..2 : Has(last.calls[c].input, "message")
                            \/ Has(last.calls[c].input, "visibility") )
    => /\ \A c \in 1..2 : last.calls[c].error = NoError
       /\ Len(last.writes) = 2
       /\ \A field \in {"message", "visibility", "keywords"} : LastWriteWins(field)

\* the same restricted to a table that has the column the UPDATE writes
RaceWithColumnIsLastWriteWins ==
    schema.updated_at => C23_ConcurrentUpdatesLastWriteWins

\* both calls wrote a different message, the second call first
RaceBothWrote ==
    /\ last.op = "updates"
    /\ \A c \in 1..2 : last.calls[c].pc = "done"
    /\ last.writes = <<2, 1>>
    /\ Has(last.calls[1].input, "message") /\ Has(last.calls[2].input, "message")
    /\ last.calls[1].input.message # last.calls[2].input.message
    /\ recognitions[last.id].message = last.calls[1].input.message

====
